---- MODULE Spec2Model ----
(***************************************************************************)
(* A model of the NTP wire codec of package ntp (src/ntp/ntp.go): the      *)
(* fixed-point time formats (Short, Timestamp), the 48-byte message        *)
(* header, the extension fields and the authentication trailer.            *)
(*                                                                         *)
(* Number representation.  TLC's integers are 32-bit signed, the code's    *)
(* are uint16, uint32 and int64.  A uint8/uint16 is a natural number.  A   *)
(* uint32 is a record [hi, lo] of two 16-bit limbs (value hi*2^16 + lo).   *)
(* An int64 count of nanoseconds (time.Duration, or a time.Time as its     *)
(* offset from NTPEpoch) is a record [neg, hi, lo, ns] of value            *)
(*      (+/-) ((hi*2^16 + lo) * 10^9 + ns),   0 <= ns < 10^9, 0 <= lo < 2^16*)
(* so the quotient by 1e9 (truncated toward zero, as Go divides) is the    *)
(* signed number of limbs (hi, lo) and the remainder is the signed ns.     *)
(* A byte slice is a record [arr, len]: arr is the backing array from the  *)
(* slice's first element to its capacity, len the slice's length.          *)
(***************************************************************************)
EXTENDS Integers, Sequences, FiniteSets, TLC

VARIABLES
    m,       \* the Msg the methods are called on
    buf,     \* the byte slice handed to Pack / Unpack
    sent,    \* history: the Msg whose packing produced buf's contents
    pre,     \* history: m as it was before the last operation
    op,      \* the last operation
    err,     \* the error the last operation returned ("nil" for none)
    fault,   \* the last operation ended in a run-time bounds panic
    stray,   \* the last operation read slice elements at or past len
    cur,     \* the cursor i of the extension-field loops when they ended
    pc,      \* position of the fixed-point conversions (as in the package's tests)
    src,     \* where the fixed-point value came from: a time, a duration, a literal
    tin,     \* the time.Time given to NewTimestampFromTime
    din,     \* the time.Duration given to NewShortFromDuration
    ts,      \* a Timestamp
    ts2,     \* the Timestamp unpackTimestamp returned
    sh,      \* a Short
    sh2,     \* the Short unpackShort returned
    wire,    \* the 8-byte buffer of the fixed-point packers
    wire0,   \* history: wire as allocated
    tt       \* the time.Time TimeFromTimestamp returned

vars == <<m, buf, sent, pre, op, err, fault, stray, cur,
          pc, src, tin, din, ts, ts2, sh, sh2, wire, wire0, tt>>

msgVars == <<m, buf, sent, pre, fault, stray, cur>>
fixedVars == <<pc, src, tin, din, ts, ts2, sh, sh2, wire, wire0, tt>>

(***************************************************************************)
(* Bounds of the model.                                                    *)
(***************************************************************************)
MaxExtra == 28      \* input messages carry 0..MaxExtra bytes after the header
MaxValueLen == 5    \* extension-field values of the inputs have 0..MaxValueLen bytes
MaxFields == 2      \* input messages carry 0..MaxFields extension fields

(***************************************************************************)
(* Program constants.                                                      *)
(***************************************************************************)
HeaderSize == 48
Billion == 1000000000
DgstLen == 16

(***************************************************************************)
(* Machine arithmetic.                                                     *)
(***************************************************************************)
Byte(x) == x % 256

RECURSIVE BitAnd(_, _)
BitAnd(a, b) ==
    IF a = 0 \/ b = 0 THEN 0
    ELSE (a % 2) * (b % 2) + 2 * BitAnd(a \div 2, b \div 2)

RECURSIVE BitOr(_, _)
BitOr(a, b) ==
    IF a = 0 THEN b
    ELSE IF b = 0 THEN a
    ELSE (IF a % 2 = 1 \/ b % 2 = 1 THEN 1 ELSE 0) + 2 * BitOr(a \div 2, b \div 2)

Shl8(x, n) == (x * 2^n) % 256
Shl16(x, n) == (x * 2^n) % 65536

U32(n) == [hi |-> n \div 65536, lo |-> n % 65536]

Shr32(x, n) ==
    IF n >= 16
    THEN [hi |-> 0, lo |-> x.hi \div 2^(n - 16)]
    ELSE [hi |-> x.hi \div 2^n,
          lo |-> (x.lo \div 2^n) + (x.hi % 2^n) * 2^(16 - n)]

Shl32(x, n) ==
    IF n >= 16
    THEN [hi |-> (x.lo * 2^(n - 16)) % 65536, lo |-> 0]
    ELSE [hi |-> (x.hi * 2^n + x.lo \div 2^(16 - n)) % 65536,
          lo |-> (x.lo * 2^n) % 65536]

And32(x, y) == [hi |-> BitAnd(x.hi, y.hi), lo |-> BitAnd(x.lo, y.lo)]
Or32(x, y) == [hi |-> BitOr(x.hi, y.hi), lo |-> BitOr(x.lo, y.lo)]
Byte32(x) == x.lo % 256

\* 0xffffffff and 0xffff as the limbs of a count of seconds
U32Max == [hi |-> 65535, lo |-> 65535]
U16Max == [hi |-> 0, lo |-> 65535]

\* two's-complement negation in 32 and in 16 bits
Neg32(x) ==
    IF x.lo = 0
    THEN [hi |-> (65536 - x.hi) % 65536, lo |-> 0]
    ELSE [hi |-> 65535 - x.hi, lo |-> 65536 - x.lo]
Neg16(x) == (65536 - x) % 65536

\* the k quotient bits, most significant first, of (r * 2^k) / 1e9 for 0 <= r < 1e9
RECURSIVE DivBits(_, _)
DivBits(r, k) ==
    IF k = 0 THEN << >>
    ELSE LET r2 == 2 * r
             bit == IF r2 >= Billion THEN 1 ELSE 0
         IN  <<bit>> \o DivBits(r2 - bit * Billion, k - 1)

RECURSIVE FromBits(_)
FromBits(bits) ==
    IF bits = << >> THEN 0
    ELSE 2 * FromBits(SubSeq(bits, 1, Len(bits) - 1)) + bits[Len(bits)]

\* (x * 1e9) >> k for a k-bit x: Horner's rule from the least significant bit,
\* floor((floor(a) + n) / 2) = floor((a + n) / 2) for an integer n
RECURSIVE MulShr(_, _, _)
MulShr(x, k, acc) ==
    IF k = 0 THEN acc
    ELSE MulShr(x \div 2, k - 1, (acc + (x % 2) * Billion) \div 2)

(***************************************************************************)
(* Fixed-point formats.                                                    *)
(***************************************************************************)
ZeroShort == [Seconds |-> 0, Fraction |-> 0]
ZeroTimestamp == [Seconds |-> U32(0), Fraction |-> U32(0)]

\* NTPEpoch itself, as an offset from NTPEpoch; also the zero Duration
Epoch == [neg |-> FALSE, hi |-> 0, lo |-> 0, ns |-> 0]

\* comparisons of x / 1e9 (truncated toward zero) with a constant c >= 0 given in limbs
MagGt(x, c) == x.hi > c.hi \/ (x.hi = c.hi /\ x.lo > c.lo)
SecondsGt(x, c) == ~x.neg /\ MagGt(x, c)
SecondsLtMinus(x, c) == x.neg /\ MagGt(x, c)

\* uint32(s) and uint16(s) of the int64 s = x / 1e9
Uint32OfSeconds(x) ==
    LET low == [hi |-> x.hi % 65536, lo |-> x.lo]
    IN  IF x.neg THEN Neg32(low) ELSE low
Uint16OfSeconds(x) == IF x.neg THEN Neg16(x.lo) ELSE x.lo

\* uint32((x % 1e9) << 32 / 1e9) and uint16((x % 1e9) << 16 / 1e9)
Uint32OfFraction(x) ==
    LET bits == DivBits(x.ns, 32)
        q == [hi |-> FromBits(SubSeq(bits, 1, 16)), lo |-> FromBits(SubSeq(bits, 17, 32))]
    IN  IF x.neg THEN Neg32(q) ELSE q
Uint16OfFraction(x) ==
    LET q == FromBits(DivBits(x.ns, 16))
    IN  IF x.neg THEN Neg16(q) ELSE q

\* lsb is the value rand.Intn(4) returned
NewTimestampFromTime(t, lsb) ==
    IF SecondsGt(t, U32Max) \/ SecondsLtMinus(t, U32Max)
    THEN [ts |-> ZeroTimestamp, err |-> "overflow"]
    ELSE LET f == Uint32OfFraction(t)
         IN  [ts |-> [Seconds |-> Uint32OfSeconds(t),
                      Fraction |-> Or32(Shl32(Shr32(f, 2), 2), U32(lsb))],
              err |-> "nil"]

\* the offset from NTPEpoch of the time returned
TimeFromTimestamp(x) ==
    [neg |-> FALSE, hi |-> x.Seconds.hi, lo |-> x.Seconds.lo,
     ns |-> MulShr(x.Fraction.hi, 16, MulShr(x.Fraction.lo, 16, 0))]

\* the range check without its negative side
NewShortFromDuration_PositiveOnly(d) ==
    IF SecondsGt(d, U16Max)
    THEN [sh |-> ZeroShort, err |-> "overflow"]
    ELSE [sh |-> [Seconds |-> Uint16OfSeconds(d), Fraction |-> Uint16OfFraction(d)],
          err |-> "nil"]

NewShortFromDuration(d) ==
    IF SecondsGt(d, U16Max) \/ SecondsLtMinus(d, U16Max)
    THEN [sh |-> ZeroShort, err |-> "overflow"]
    ELSE [sh |-> [Seconds |-> Uint16OfSeconds(d), Fraction |-> Uint16OfFraction(d)],
          err |-> "nil"]

\* b[i] = v for a 0-based index i of the array b
Put(b, i, v) == [b EXCEPT ![i + 1] = v]
At(b, i) == b[i + 1]

\* b[lo:hi] of an array
Sub(b, lo, hi) == SubSeq(b, lo + 1, hi)

\* the array b with b[off:off+len(part)] replaced by part
Splice(b, off, part) ==
    [i \in 1..Len(b) |->
        IF i > off /\ i <= off + Len(part) THEN part[i - off] ELSE b[i]]

packShort(st, b) ==
    LET b0 == Put(b, 0, Byte(st.Seconds \div 256))
        b1 == Put(b0, 1, Byte(BitAnd(st.Seconds, 255)))
        b2 == Put(b1, 2, Byte(st.Fraction \div 256))
    IN  Put(b2, 3, Byte(BitAnd(st.Fraction, 255)))

unpackShort(b) ==
    [Seconds |-> BitOr(Shl16(At(b, 0), 8), At(b, 1)),
     Fraction |-> BitOr(Shl16(At(b, 2), 8), At(b, 3))]

\* the second byte masked after the shift with the mask of before it
packTimestamp_WideMask(st, b) ==
    LET b0 == Put(b, 0, Byte32(Shr32(st.Seconds, 24)))
        b1 == Put(b0, 1, Byte32(And32(Shr32(st.Seconds, 16), U32(16711680))))
        b2 == Put(b1, 2, Byte32(And32(Shr32(st.Seconds, 8), U32(255))))
        b3 == Put(b2, 3, Byte32(And32(st.Seconds, U32(255))))
        b4 == Put(b3, 4, Byte32(Shr32(st.Fraction, 24)))
        b5 == Put(b4, 5, Byte32(And32(Shr32(st.Fraction, 16), U32(255))))
        b6 == Put(b5, 6, Byte32(And32(Shr32(st.Fraction, 8), U32(255))))
    IN  Put(b6, 7, Byte32(And32(st.Fraction, U32(255))))

packTimestamp(st, b) ==
    LET b0 == Put(b, 0, Byte32(Shr32(st.Seconds, 24)))
        b1 == Put(b0, 1, Byte32(And32(Shr32(st.Seconds, 16), U32(255))))
        b2 == Put(b1, 2, Byte32(And32(Shr32(st.Seconds, 8), U32(255))))
        b3 == Put(b2, 3, Byte32(And32(st.Seconds, U32(255))))
        b4 == Put(b3, 4, Byte32(Shr32(st.Fraction, 24)))
        b5 == Put(b4, 5, Byte32(And32(Shr32(st.Fraction, 16), U32(255))))
        b6 == Put(b5, 6, Byte32(And32(Shr32(st.Fraction, 8), U32(255))))
    IN  Put(b6, 7, Byte32(And32(st.Fraction, U32(255))))

Uint32OfBytes(b, i) ==
    Or32(Or32(Or32(Shl32(U32(At(b, i)), 24), Shl32(U32(At(b, i + 1)), 16)),
              Shl32(U32(At(b, i + 2)), 8)),
         U32(At(b, i + 3)))

unpackTimestamp(b) ==
    [Seconds |-> Uint32OfBytes(b, 0), Fraction |-> Uint32OfBytes(b, 4)]

(***************************************************************************)
(* The message: header, extension fields, key identifier and digest.       *)
(***************************************************************************)
ZeroHeader ==
    [Leap |-> 0, Version |-> 0, Mode |-> 0, Stratum |-> 0, Poll |-> 0, Precision |-> 0,
     RootDelay |-> ZeroShort, RootDisp |-> ZeroShort, RefID |-> <<0, 0, 0, 0>>,
     RefTime |-> ZeroTimestamp, Org |-> ZeroTimestamp, Rec |-> ZeroTimestamp,
     Xmt |-> ZeroTimestamp, Dst |-> ZeroTimestamp]

ZeroMsg ==
    [Header |-> ZeroHeader, ExtensionFields |-> << >>, KeyID |-> U32(0),
     Dgst |-> [i \in 1..DgstLen |-> 0]]

\* exponent(b) of a byte, and byte(e) of an exponent (an int8)
ExponentOfByte(b) == IF b >= 128 THEN b - 256 ELSE b
ByteOfExponent(e) == IF e < 0 THEN e + 256 ELSE e

\* (mh *MsgHeader) Unpack(b), b the array of a slice of at least HeaderSize bytes
MsgHeaderUnpack(mh, b) ==
    [mh EXCEPT
        !.Leap = At(b, 0) \div 64,
        !.Version = BitAnd(At(b, 0) \div 8, 7),
        !.Mode = BitAnd(At(b, 0), 7),
        !.Stratum = At(b, 1),
        !.Poll = ExponentOfByte(At(b, 2)),
        !.Precision = ExponentOfByte(At(b, 3)),
        !.RootDelay = unpackShort(Sub(b, 4, 8)),
        !.RootDisp = unpackShort(Sub(b, 8, 12)),
        !.RefID = <<At(b, 12), At(b, 13), At(b, 14), At(b, 15)>>,
        !.Org = unpackTimestamp(Sub(b, 16, 24)),
        !.Rec = unpackTimestamp(Sub(b, 24, 32)),
        !.Xmt = unpackTimestamp(Sub(b, 32, 40)),
        !.Dst = unpackTimestamp(Sub(b, 40, 48))]

\* (mh *MsgHeader) Pack(buf): the array after the call
MsgHeaderPack(mh, b) ==
    LET b0 == Put(b, 0, BitOr(BitOr(Shl8(mh.Leap, 6), Shl8(mh.Version, 3)), mh.Mode))
        b1 == Put(b0, 1, mh.Stratum)
        b2 == Put(b1, 2, ByteOfExponent(mh.Poll))
        b3 == Put(b2, 3, ByteOfExponent(mh.Precision))
        b4 == Splice(b3, 4, packShort(mh.RootDelay, Sub(b3, 4, 8)))
    IN  Splice(b4, 8, packShort(mh.RootDisp, Sub(b4, 8, 12)))

\* (e *ExtensionField) Len()
FieldLen(e) == Len(e.Value) % 256

\* the loop of packExtensionFields from field k on, cursor i, on the slice s.
\* An index is checked against len(s), the end of a slice expression against cap(s).
RECURSIVE packExtensionLoop(_, _, _, _)
packExtensionLoop(fields, k, i, s) ==
    IF k > Len(fields) THEN [arr |-> s.arr, fault |-> FALSE, cur |-> i]
    ELSE LET e == fields[k]
             l == FieldLen(e)
             padding == 4 - (l % 4)
             startVal == i + 2
             endVal == startVal + l
         IN  IF i >= s.len
             THEN [arr |-> s.arr, fault |-> TRUE, cur |-> i]
             ELSE IF i + 1 >= s.len
             THEN [arr |-> Put(s.arr, i, e.Type), fault |-> TRUE, cur |-> i]
             ELSE LET a == Put(Put(s.arr, i, e.Type), i + 1, l)
                  IN  IF endVal > Len(s.arr)
                      THEN [arr |-> a, fault |-> TRUE, cur |-> i]
                      ELSE packExtensionLoop(fields, k + 1, endVal + padding,
                               [s EXCEPT !.arr = Splice(a, startVal, SubSeq(e.Value, 1, l))])

packExtensionFields(msg, s) == packExtensionLoop(msg.ExtensionFields, 1, 0, s)

\* the loop of unpackExtensionFields at cursor i, acc being m.ExtensionFields
RECURSIVE unpackExtensionLoop(_, _, _, _)
unpackExtensionLoop(acc, i, s, out) ==
    IF ~(i < s.len) THEN [fields |-> acc, err |-> "nil", fault |-> FALSE, stray |-> out, cur |-> i]
    ELSE IF i + 1 >= s.len
    THEN [fields |-> acc, err |-> "nil", fault |-> TRUE, stray |-> out, cur |-> i]
    ELSE LET t == At(s.arr, i)
             l == At(s.arr, i + 1)
             startVal == i + 2
             endVal == l + startVal
             padding == 4 - (l % 4)
         IN  IF endVal > Len(s.arr)
             THEN [fields |-> acc, err |-> "nil", fault |-> TRUE, stray |-> out, cur |-> i]
             ELSE unpackExtensionLoop(
                      Append(acc, [Type |-> t, Value |-> Sub(s.arr, startVal, endVal)]),
                      IF padding # 0 THEN i + padding ELSE i, s,
                      out \/ (endVal > s.len /\ l > 0))

unpackExtensionFields(msg, s) == unpackExtensionLoop(msg.ExtensionFields, 0, s, FALSE)

\* the digest loop of Msg.Pack: for j := 0; j < 16; i++ { buf[i+j] = m.Dgst[i] }
RECURSIVE packDgstLoop(_, _, _, _)
packDgstLoop(msg, s, i, j) ==
    IF ~(j < 16) THEN [arr |-> s.arr, fault |-> FALSE]
    ELSE IF i >= DgstLen \/ i + j >= s.len
    THEN [arr |-> s.arr, fault |-> TRUE]
    ELSE packDgstLoop(msg, [s EXCEPT !.arr = Put(s.arr, i + j, msg.Dgst[i + 1])], i + 1, j)

\* (m *Msg) Pack(buf): the array after the call, and whether it panicked
MsgPack(msg, s) ==
    LET h == MsgHeaderPack(msg.Header, s.arr)
    IN  IF msg.Header.Version < 4 THEN [arr |-> h, fault |-> FALSE]
        ELSE LET x == packExtensionFields(msg,
                          [arr |-> Sub(h, s.len, Len(h)), len |-> Len(h) - s.len])
                 a == Splice(h, s.len, x.arr)
                 i == 0
                 a0 == Put(a, i, Byte32(Shr32(msg.KeyID, 24)))
                 a1 == Put(a0, i + 1, Byte32(And32(Shr32(msg.KeyID, 16), U32(16711680))))
                 a2 == Put(a1, i + 2, Byte32(And32(Shr32(msg.KeyID, 8), U32(65280))))
                 a3 == Put(a2, i + 3, Byte32(And32(msg.KeyID, U32(255))))
             IN  IF x.fault THEN [arr |-> a, fault |-> TRUE]
                 ELSE packDgstLoop(msg, [arr |-> a3, len |-> s.len], i + 3, 0)

\* the digest loop of Msg.Unpack: for i := 15; i >= 0; i-- { m.Dgst[i] = b[end-i-1] }
RECURSIVE unpackDgstLoop(_, _, _, _)
unpackDgstLoop(dgst, s, end, i) ==
    IF ~(i >= 0) THEN [dgst |-> dgst, fault |-> FALSE]
    ELSE IF end - i - 1 >= s.len \/ end - i - 1 < 0
    THEN [dgst |-> dgst, fault |-> TRUE]
    ELSE unpackDgstLoop([dgst EXCEPT ![i + 1] = At(s.arr, end - i - 1)], s, end, i - 1)

\* the test with the bound lowered by one
TrailerFollows_AnyRemain(remain) == remain > 0

\* if remain > 1: bytes follow the header
TrailerFollows(remain) == remain > 1

\* (m *Msg) Unpack(b): the Msg after the call, the error returned, whether it panicked
MsgUnpack(msg, s) ==
    LET h == [msg EXCEPT !.Header = MsgHeaderUnpack(msg.Header, s.arr)]
        end == s.len + 1
        remain == end - HeaderSize
        done(x) == [m |-> x, err |-> "nil", fault |-> FALSE, stray |-> FALSE]
        panic(x) == [m |-> x, err |-> "nil", fault |-> TRUE, stray |-> FALSE]
    IN  IF h.Header.Version < 4 THEN done(h)
        ELSE IF ~TrailerFollows(remain) THEN done(h)
        ELSE IF remain < 4 + DgstLen + 5
        THEN [m |-> h, err |-> "not enough data following header", fault |-> FALSE,
              stray |-> FALSE]
        ELSE LET dg == unpackDgstLoop(h.Dgst, s, end, 15)
                 hd == [h EXCEPT !.Dgst = dg.dgst]
                 end1 == end - DgstLen
                 hk == [hd EXCEPT !.KeyID = Uint32OfBytes(s.arr, end1 - 4)]
                 end2 == end1 - 4
                 x == unpackExtensionFields(hk,
                          [arr |-> Sub(s.arr, HeaderSize, Len(s.arr)),
                           len |-> end2 - HeaderSize])
                 hx == [hk EXCEPT !.ExtensionFields = x.fields]
             IN  IF dg.fault THEN panic(hd)
                 ELSE IF end1 - 1 >= s.len THEN panic(hd)
                 ELSE IF end2 > Len(s.arr) THEN panic(hk)
                 ELSE [m |-> hx, err |-> "nil", fault |-> x.fault, stray |-> x.stray]

(***************************************************************************)
(* Inputs of the message codec.                                            *)
(***************************************************************************)
Stamp(a, b, c, d) == [Seconds |-> [hi |-> a, lo |-> b], Fraction |-> [hi |-> c, lo |-> d]]

\* the client request of an idle client, and a server reply with every field set
QuietHeader(v) ==
    [ZeroHeader EXCEPT !.Version = v, !.Mode = 3, !.Poll = 4, !.Precision = -6]
BusyHeader(v) ==
    [Leap |-> 3, Version |-> v, Mode |-> 4, Stratum |-> 2, Poll |-> 6, Precision |-> -20,
     RootDelay |-> [Seconds |-> 1, Fraction |-> 32768],
     RootDisp |-> [Seconds |-> 258, Fraction |-> 4660],
     RefID |-> <<127, 0, 0, 1>>,
     RefTime |-> Stamp(35752, 6128, 1, 2), Org |-> Stamp(35752, 6129, 32768, 4),
     Rec |-> Stamp(55270, 40000, 65535, 65535), Xmt |-> Stamp(55270, 40001, 4660, 22136),
     Dst |-> Stamp(55270, 40002, 3, 5)]

\* a field of type t whose value has n bytes: 0xAA, 0xBB, 0xCC, ...
FieldOf(t, n) == [Type |-> t, Value |-> [i \in 1..n |-> (153 + 17 * i) % 256]]
Fields == { FieldOf(n + 1, n) : n \in 0..MaxValueLen }
FieldLists == UNION { [1..k -> Fields] : k \in 0..MaxFields }
MsgFieldLists == { [i \in 1..k |-> FieldOf(i, MaxValueLen - i)] : k \in 0..MaxFields }

SetDgst == [i \in 1..DgstLen |-> 100 + i]
Msgs ==
    { [Header |-> QuietHeader(v), ExtensionFields |-> << >>, KeyID |-> U32(0),
       Dgst |-> ZeroMsg.Dgst] : v \in { 3, 4 } }
    \cup
    { [Header |-> BusyHeader(v), ExtensionFields |-> f, KeyID |-> [hi |-> 43981, lo |-> 52719],
       Dgst |-> SetDgst] : v \in { 3, 4 }, f \in MsgFieldLists }

\* a received datagram: first is its first byte (0x1b: version 3, 0x23: version 4),
\* n the bytes after the header, slack the capacity past its length
Ramp(i) == (5 * i + 1) % 256
Datagram(first, n, slack) ==
    [arr |-> [i \in 1..(HeaderSize + n + slack) |-> IF i = 1 THEN first ELSE Ramp(i)],
     len |-> HeaderSize + n]

\* extension-field regions laid out as RFC 5905 7.5 asks: one field of three bytes
\* and a pad byte; a field of two bytes and two pad bytes, then an empty field
Regions == { <<1, 3, 170, 187, 204, 0>>, <<7, 2, 170, 187, 0, 0, 9, 0>> }
Trailer == <<1, 2, 3, 4>> \o SetDgst
Framed(first, region) ==
    LET a == [i \in 1..HeaderSize |-> IF i = 1 THEN first ELSE Ramp(i)] \o region \o Trailer
    IN  [arr |-> a, len |-> Len(a)]

\* a zeroed buffer to pack into
Blank(n, slack, v) == [arr |-> [i \in 1..(n + slack) |-> v], len |-> n]

Buffers ==
    { Datagram(first, n, slack) : first \in { 27, 35 }, n \in 0..MaxExtra, slack \in { 0 } }
    \cup { Framed(first, r) : first \in { 27, 35 }, r \in Regions }
    \cup { Blank(HeaderSize + 20, slack, 0) : slack \in { 0, 24 } }

ExtMsgs == { [ZeroMsg EXCEPT !.ExtensionFields = f] : f \in FieldLists }
ExtSlices ==
    { Blank(n, 0, v) : n \in 0..(MaxFields * (MaxValueLen + 5)), v \in { 0, 255 } }
    \cup { [arr |-> r, len |-> Len(r)] : r \in Regions }
    \cup { [arr |-> <<1>>, len |-> 1],
           [arr |-> <<1, 5, 170>>, len |-> 3],
           [arr |-> <<1, 5, 170, 9, 9, 9, 9, 9>>, len |-> 3],
           [arr |-> <<1, 3, 170, 187, 204, 0, 0, 0>>, len |-> 6] }

(***************************************************************************)
(* The message codec: a Msg and a buffer, and the calls made on them.  A   *)
(* call that panics ends the program.  The header methods are called on    *)
(* buffers of at least HeaderSize bytes, as their callers must ensure.     *)
(* Unpacking appends to m.ExtensionFields; a Msg that already holds more   *)
(* than MaxFields fields is not unpacked into again, which keeps the list  *)
(* finite.                                                                 *)
(***************************************************************************)
FixedIdle ==
    /\ pc = "start" /\ src = "none"
    /\ tin = Epoch /\ din = Epoch
    /\ ts = ZeroTimestamp /\ ts2 = ZeroTimestamp
    /\ sh = ZeroShort /\ sh2 = ZeroShort
    /\ wire = [i \in 1..8 |-> 0] /\ wire0 = wire
    /\ tt = Epoch

MsgIdle ==
    /\ sent = [by |-> "none", msg |-> ZeroMsg]
    /\ pre = m
    /\ op = "none" /\ err = "nil"
    /\ fault = FALSE /\ stray = FALSE /\ cur = 0

Init ==
    /\ m \in Msgs
    /\ buf \in Buffers
    /\ MsgIdle
    /\ FixedIdle

\* var m Msg
NewMsg ==
    /\ ~fault
    /\ m # ZeroMsg
    /\ m' = ZeroMsg
    /\ pre' = m
    /\ op' = "Msg{}"
    /\ UNCHANGED <<buf, sent, err, fault, stray, cur>>
    /\ UNCHANGED fixedVars

CallMsgHeaderPack ==
    /\ ~fault
    /\ buf.len >= HeaderSize
    /\ buf' = [buf EXCEPT !.arr = MsgHeaderPack(m.Header, buf.arr)]
    /\ sent' = [by |-> "MsgHeader.Pack", msg |-> m]
    /\ pre' = m
    /\ op' = "MsgHeader.Pack"
    /\ err' = "nil"
    /\ UNCHANGED <<m, fault, stray, cur>>
    /\ UNCHANGED fixedVars

CallMsgHeaderUnpack ==
    /\ ~fault
    /\ buf.len >= HeaderSize
    /\ m' = [m EXCEPT !.Header = MsgHeaderUnpack(m.Header, buf.arr)]
    /\ pre' = m
    /\ op' = "MsgHeader.Unpack"
    /\ err' = "nil"
    /\ UNCHANGED <<buf, sent, fault, stray, cur>>
    /\ UNCHANGED fixedVars

CallMsgPack ==
    /\ ~fault
    /\ buf.len >= HeaderSize
    /\ LET r == MsgPack(m, buf)
       IN  /\ buf' = [buf EXCEPT !.arr = r.arr]
           /\ fault' = r.fault
    /\ sent' = [by |-> "Msg.Pack", msg |-> m]
    /\ pre' = m
    /\ op' = "Msg.Pack"
    /\ err' = "nil"
    /\ UNCHANGED <<m, stray, cur>>
    /\ UNCHANGED fixedVars

CallMsgUnpack ==
    /\ ~fault
    /\ buf.len >= HeaderSize
    /\ Len(m.ExtensionFields) <= MaxFields
    /\ LET r == MsgUnpack(m, buf)
       IN  /\ m' = r.m
           /\ err' = r.err
           /\ fault' = r.fault
           /\ stray' = r.stray
    /\ pre' = m
    /\ op' = "Msg.Unpack"
    /\ UNCHANGED <<buf, sent, cur>>
    /\ UNCHANGED fixedVars

Next ==
    \/ NewMsg
    \/ CallMsgHeaderPack
    \/ CallMsgHeaderUnpack
    \/ CallMsgPack
    \/ CallMsgUnpack

Spec == Init /\ [][Next]_vars

(***************************************************************************)
(* The extension-field routines called on a slice of their own.            *)
(***************************************************************************)
InitExt ==
    /\ m \in ExtMsgs
    /\ buf \in ExtSlices
    /\ MsgIdle
    /\ FixedIdle

CallPackExtensionFields ==
    /\ ~fault
    /\ LET r == packExtensionFields(m, buf)
       IN  /\ buf' = [buf EXCEPT !.arr = r.arr]
           /\ fault' = r.fault
           /\ cur' = r.cur
    /\ sent' = [by |-> "packExtensionFields", msg |-> m]
    /\ pre' = m
    /\ op' = "packExtensionFields"
    /\ err' = "nil"
    /\ UNCHANGED <<m, stray>>
    /\ UNCHANGED fixedVars

CallUnpackExtensionFields ==
    /\ ~fault
    /\ Len(m.ExtensionFields) <= MaxFields
    /\ LET r == unpackExtensionFields(m, buf)
       IN  /\ m' = [m EXCEPT !.ExtensionFields = r.fields]
           /\ err' = r.err
           /\ fault' = r.fault
           /\ stray' = r.stray
           /\ cur' = r.cur
    /\ pre' = m
    /\ op' = "unpackExtensionFields"
    /\ UNCHANGED <<buf, sent>>
    /\ UNCHANGED fixedVars

NextExt ==
    \/ NewMsg
    \/ CallPackExtensionFields
    \/ CallUnpackExtensionFields

SpecExt == InitExt /\ [][NextExt]_vars

(***************************************************************************)
(* Inputs of the fixed-point conversions.                                  *)
(***************************************************************************)
\* whole seconds: 0, 1, 2343049200 (1974-04-01T15:00:00Z), 2^32 - 1, 2^32
TimeSeconds ==
    { <<0, 0>>, <<0, 1>>, <<35752, 6128>>, <<65535, 65535>>, <<65536, 0>> }
\* whole seconds: 0, 4, 65535, 65536, 65537, 3456000 (40 days)
DurationSeconds ==
    { <<0, 0>>, <<0, 4>>, <<0, 65535>>, <<1, 0>>, <<1, 1>>, <<52, 48128>> }
SubSeconds == { 0, 1, 4, 500000000, 999999999 }

Nanos(neg, s, n) == [neg |-> neg, hi |-> s[1], lo |-> s[2], ns |-> n]
IsZero(x) == x.hi = 0 /\ x.lo = 0 /\ x.ns = 0

Times ==
    { x \in { Nanos(neg, s, n) : neg \in BOOLEAN, s \in TimeSeconds, n \in SubSeconds } :
        x.neg => ~IsZero(x) }
Durations ==
    { x \in { Nanos(neg, s, n) : neg \in BOOLEAN, s \in DurationSeconds, n \in SubSeconds } :
        x.neg => ~IsZero(x) }

Words == { 0, 1, 255, 256, 4660, 32768, 65535 }
Shorts == { [Seconds |-> a, Fraction |-> b] : a \in { 0, 258, 65535 }, b \in Words }
Timestamps ==
    { [Seconds |-> [hi |-> a, lo |-> b], Fraction |-> [hi |-> b, lo |-> c]] :
        a \in { 0, 4660, 65535 }, b \in { 1, 22136, 32768 }, c \in { 0, 39612, 65535 } }

\* make([]byte, 8), and the same array with every bit set
Wires == { [i \in 1..8 |-> v] : v \in { 0, 255 } }

(***************************************************************************)
(* The fixed-point conversions, chained as the package's tests chain them. *)
(***************************************************************************)
InitFixed ==
    /\ m = ZeroMsg /\ buf = Blank(0, 0, 0)
    /\ MsgIdle
    /\ pc = "start" /\ src = "none"
    /\ tin = Epoch /\ din = Epoch
    /\ ts = ZeroTimestamp /\ ts2 = ZeroTimestamp
    /\ sh = ZeroShort /\ sh2 = ZeroShort
    /\ wire \in Wires /\ wire0 = wire
    /\ tt = Epoch

CallNewTimestampFromTime ==
    /\ pc = "start"
    /\ \E t \in Times, lsb \in 0..3 :
         LET r == NewTimestampFromTime(t, lsb)
         IN  /\ tin' = t
             /\ ts' = r.ts
             /\ err' = r.err
             /\ pc' = IF r.err = "nil" THEN "ts" ELSE "failed"
    /\ src' = "time"
    /\ op' = "NewTimestampFromTime"
    /\ UNCHANGED <<din, ts2, sh, sh2, wire, wire0, tt>>
    /\ UNCHANGED msgVars

LiteralTimestamp ==
    /\ pc = "start"
    /\ \E x \in Timestamps : ts' = x
    /\ pc' = "ts"
    /\ src' = "literal"
    /\ op' = "Timestamp"
    /\ UNCHANGED <<err, tin, din, ts2, sh, sh2, wire, wire0, tt>>
    /\ UNCHANGED msgVars

CallTimeFromTimestamp ==
    /\ pc = "ts"
    /\ tt' = TimeFromTimestamp(ts)
    /\ pc' = "tsTime"
    /\ op' = "TimeFromTimestamp"
    /\ UNCHANGED <<err, src, tin, din, ts, ts2, sh, sh2, wire, wire0>>
    /\ UNCHANGED msgVars

CallPackTimestamp ==
    /\ pc = "ts"
    /\ wire' = packTimestamp(ts, wire)
    /\ pc' = "tsPacked"
    /\ op' = "packTimestamp"
    /\ UNCHANGED <<err, src, tin, din, ts, ts2, sh, sh2, wire0, tt>>
    /\ UNCHANGED msgVars

CallUnpackTimestamp ==
    /\ pc = "tsPacked"
    /\ ts2' = unpackTimestamp(wire)
    /\ pc' = "tsUnpacked"
    /\ op' = "unpackTimestamp"
    /\ UNCHANGED <<err, src, tin, din, ts, sh, sh2, wire, wire0, tt>>
    /\ UNCHANGED msgVars

CallNewShortFromDuration ==
    /\ pc = "start"
    /\ \E d \in Durations :
         LET r == NewShortFromDuration(d)
         IN  /\ din' = d
             /\ sh' = r.sh
             /\ err' = r.err
             /\ pc' = IF r.err = "nil" THEN "sh" ELSE "failed"
    /\ src' = "duration"
    /\ op' = "NewShortFromDuration"
    /\ UNCHANGED <<tin, ts, ts2, sh2, wire, wire0, tt>>
    /\ UNCHANGED msgVars

LiteralShort ==
    /\ pc = "start"
    /\ \E x \in Shorts : sh' = x
    /\ pc' = "sh"
    /\ src' = "literal"
    /\ op' = "Short"
    /\ UNCHANGED <<err, tin, din, ts, ts2, sh2, wire, wire0, tt>>
    /\ UNCHANGED msgVars

CallPackShort ==
    /\ pc = "sh"
    /\ wire' = packShort(sh, wire)
    /\ pc' = "shPacked"
    /\ op' = "packShort"
    /\ UNCHANGED <<err, src, tin, din, ts, ts2, sh, sh2, wire0, tt>>
    /\ UNCHANGED msgVars

CallUnpackShort ==
    /\ pc = "shPacked"
    /\ sh2' = unpackShort(wire)
    /\ pc' = "shUnpacked"
    /\ op' = "unpackShort"
    /\ UNCHANGED <<err, src, tin, din, ts, ts2, sh, wire, wire0, tt>>
    /\ UNCHANGED msgVars

NextFixed ==
    \/ CallNewTimestampFromTime
    \/ LiteralTimestamp
    \/ CallTimeFromTimestamp
    \/ CallPackTimestamp
    \/ CallUnpackTimestamp
    \/ CallNewShortFromDuration
    \/ LiteralShort
    \/ CallPackShort
    \/ CallUnpackShort

SpecFixed == InitFixed /\ [][NextFixed]_vars

(***************************************************************************)
(* The wire format as RFC 5905 and the specification lay it out, written   *)
(* independently of the code; used by the properties only.                 *)
(***************************************************************************)
BE16(b, i) == At(b, i) * 256 + At(b, i + 1)
BE32(b, i) == [hi |-> BE16(b, i), lo |-> BE16(b, i + 2)]
BEShort(b, i) == [Seconds |-> BE16(b, i), Fraction |-> BE16(b, i + 2)]
BEStamp(b, i) == [Seconds |-> BE32(b, i), Fraction |-> BE32(b, i + 4)]

Bytes16(x) == <<x \div 256, x % 256>>
Bytes32(x) == Bytes16(x.hi) \o Bytes16(x.lo)
BytesShort(x) == Bytes16(x.Seconds) \o Bytes16(x.Fraction)
BytesStamp(x) == Bytes32(x.Seconds) \o Bytes32(x.Fraction)

WireHeader(h) ==
    <<h.Leap * 64 + h.Version * 8 + h.Mode, h.Stratum,
      (h.Poll + 256) % 256, (h.Precision + 256) % 256>>
    \o BytesShort(h.RootDelay) \o BytesShort(h.RootDisp) \o h.RefID
    \o BytesStamp(h.RefTime) \o BytesStamp(h.Org) \o BytesStamp(h.Rec) \o BytesStamp(h.Xmt)

FitsWidths(h) == h.Leap < 4 /\ h.Version < 8 /\ h.Mode < 8
WireVersion(s) == (At(s.arr, 0) \div 8) % 8
OnWire(h) == [h EXCEPT !.Dst = ZeroTimestamp]

PadOf(l) == (4 - (l % 4)) % 4
RecordSize(e) == 2 + Len(e.Value) + PadOf(Len(e.Value))

RECURSIVE RegionSize(_)
RegionSize(fields) ==
    IF fields = << >> THEN 0 ELSE RecordSize(Head(fields)) + RegionSize(Tail(fields))

RECURSIVE RegionBytes(_)
RegionBytes(fields) ==
    IF fields = << >> THEN << >>
    ELSE LET e == Head(fields)
         IN  <<e.Type, Len(e.Value)>> \o e.Value \o [i \in 1..PadOf(Len(e.Value)) |-> 0]
             \o RegionBytes(Tail(fields))

\* the fields of a region of bytes, and whether every record lies within it
RECURSIVE RegionFields(_, _)
RegionFields(bytes, i) ==
    IF i >= Len(bytes) THEN [ok |-> i = Len(bytes), fields |-> << >>]
    ELSE IF i + 2 > Len(bytes) \/ i + 2 + At(bytes, i + 1) > Len(bytes)
    THEN [ok |-> FALSE, fields |-> << >>]
    ELSE LET l == At(bytes, i + 1)
             rest == RegionFields(bytes, i + 2 + l + PadOf(l))
         IN  [ok |-> rest.ok,
              fields |-> <<[Type |-> At(bytes, i), Value |-> Sub(bytes, i + 2, i + 2 + l)]>>
                         \o rest.fields]

\* |a - b| < n nanoseconds, for 0 < n < 1e9
Succ(x, y) ==
    \/ x.hi = y.hi /\ y.lo = x.lo + 1
    \/ x.lo = 65535 /\ y.lo = 0 /\ y.hi = x.hi + 1
NsApart(a, b, n) ==
    IF a.neg = b.neg
    THEN \/ a.hi = b.hi /\ a.lo = b.lo /\ a.ns - b.ns < n /\ b.ns - a.ns < n
         \/ Succ(a, b) /\ (Billion - a.ns) + b.ns < n
         \/ Succ(b, a) /\ (Billion - b.ns) + a.ns < n
    ELSE a.hi = 0 /\ a.lo = 0 /\ b.hi = 0 /\ b.lo = 0 /\ a.ns + b.ns < n

(***************************************************************************)
(* Properties.                                                             *)
(***************************************************************************)

\* C1: MsgHeader.Pack writes the 48 header bytes in the wire layout, whatever the
\* buffer held, and MsgHeader.Unpack of those bytes gives back every field packed.
C1_HeaderRoundTrip ==
    /\ (op = "MsgHeader.Pack" /\ FitsWidths(m.Header))
         => Sub(buf.arr, 0, HeaderSize) = WireHeader(m.Header)
    /\ (op = "MsgHeader.Unpack" /\ sent.by = "MsgHeader.Pack" /\ FitsWidths(sent.msg.Header))
         => OnWire(m.Header) = OnWire(sent.msg.Header)

\* C2: MsgHeader.Unpack reads RefTime, Org, Rec and Xmt from bytes 16-23, 24-31,
\* 32-39 and 40-47, big-endian, and leaves Dst as it was.
C2_UnpackTimestamps ==
    op = "MsgHeader.Unpack" =>
        /\ m.Header.RefTime = BEStamp(buf.arr, 16)
        /\ m.Header.Org = BEStamp(buf.arr, 24)
        /\ m.Header.Rec = BEStamp(buf.arr, 32)
        /\ m.Header.Xmt = BEStamp(buf.arr, 40)
        /\ m.Header.Dst = pre.Header.Dst

\* C3: Msg.Unpack of a version >= 4 message of 48 + n + 20 bytes, n >= 0 the size of
\* a well-formed extension-field region, returns no error, takes Dgst from the last
\* 16 bytes, KeyID from the 4 before them and the fields from the region between,
\* and reads nothing outside the buffer.
C3_TrailerDecoded ==
    LET n == buf.len - HeaderSize - 20
        region == RegionFields(Sub(buf.arr, HeaderSize, buf.len - 20), 0)
    IN  (/\ op = "Msg.Unpack"
         /\ WireVersion(buf) >= 4
         /\ n >= 0
         /\ region.ok
         /\ pre.ExtensionFields = << >>)
        => /\ err = "nil"
           /\ ~fault
           /\ ~stray
           /\ m.Dgst = Sub(buf.arr, buf.len - 16, buf.len)
           /\ m.KeyID = BE32(buf.arr, buf.len - 20)
           /\ m.ExtensionFields = region.fields

\* C4: Msg.Pack of a version >= 4 message into a buffer with room for the header,
\* the extension fields and the trailer returns normally, and the bytes hold the
\* header, the extension fields from byte 48 on, the KeyID and the digest.
C4_MsgPackLayout ==
    LET n == RegionSize(m.ExtensionFields)
    IN  (/\ op = "Msg.Pack"
         /\ m.Header.Version >= 4
         /\ FitsWidths(m.Header)
         /\ Len(buf.arr) >= HeaderSize + n + 20)
        => /\ ~fault
           /\ Sub(buf.arr, 0, HeaderSize + n + 20)
                = WireHeader(m.Header) \o RegionBytes(m.ExtensionFields)
                  \o Bytes32(m.KeyID) \o m.Dgst

\* C5: packExtensionFields emits, for each field, type, length, value and
\* (4 - length % 4) % 4 padding bytes, and unpackExtensionFields of exactly those
\* bytes yields the same fields in the same order, consuming what was written.
C5_ExtensionRoundTrip ==
    /\ (op = "packExtensionFields" /\ buf.len >= RegionSize(m.ExtensionFields))
         => /\ ~fault
            /\ cur = RegionSize(m.ExtensionFields)
    /\ (/\ op = "unpackExtensionFields"
        /\ sent.by = "packExtensionFields"
        /\ pre.ExtensionFields = << >>
        /\ buf.len = RegionSize(sent.msg.ExtensionFields))
         => /\ ~fault
            /\ m.ExtensionFields = sent.msg.ExtensionFields
            /\ cur = buf.len

\* C6: when the version is below 4, or the buffer is exactly 48 bytes, Msg.Unpack
\* returns no error, decodes the header and leaves ExtensionFields, KeyID and Dgst
\* as they were.
C6_NoTrailer ==
    (op = "Msg.Unpack" /\ (WireVersion(buf) < 4 \/ buf.len = HeaderSize))
    => /\ err = "nil"
       /\ ~fault
       /\ m.ExtensionFields = pre.ExtensionFields
       /\ m.KeyID = pre.KeyID
       /\ m.Dgst = pre.Dgst
       /\ m.Header.Version = WireVersion(buf)
       /\ m.Header.Stratum = At(buf.arr, 1)
       /\ m.Header.RootDelay = BEShort(buf.arr, 4)

C6_Witness ==
    /\ op = "Msg.Unpack"
    /\ WireVersion(buf) >= 4
    /\ buf.len = HeaderSize
    /\ pre.ExtensionFields # << >>
    /\ pre.Dgst = SetDgst
    /\ pre.Header.Version = 3

\* C7: for every time t that NewTimestampFromTime accepts, before or after the NTP
\* epoch, TimeFromTimestamp of the result is less than 10 ns from t, whatever the
\* two random low bits.
C7_TimeRoundTrip ==
    (pc = "tsTime" /\ src = "time") => NsApart(tt, tin, 10)

\* the round trip of C7 restricted to times at or after the epoch: at most 1 ns apart
TimeRoundTripFromEpochOn ==
    (pc = "tsTime" /\ src = "time" /\ ~tin.neg) => NsApart(tt, tin, 2)

\* C8: NewShortFromDuration returns the overflow error exactly when the whole
\* seconds of d exceed 65535 in magnitude.
C8_ShortOverflow ==
    src = "duration" =>
        /\ err \in { "nil", "overflow" }
        /\ (err = "overflow") <=> (din.hi * 65536 + din.lo > 65535)

C8_Witness ==
    /\ src = "duration"
    /\ err = "overflow"
    /\ din = Nanos(TRUE, <<1, 0>>, 0)

\* C9: unpackShort(packShort(s)) = s and unpackTimestamp(packTimestamp(ts)) = ts,
\* the bytes being big-endian, seconds first.
C9_PackUnpackLossless ==
    /\ pc = "tsUnpacked" => /\ ts2 = ts
                            /\ wire = BytesStamp(ts)
    /\ pc = "shUnpacked" => /\ sh2 = sh
                            /\ SubSeq(wire, 1, 4) = BytesShort(sh)
                            /\ SubSeq(wire, 5, 8) = SubSeq(wire0, 5, 8)

C9_Witness ==
    /\ pc = "tsUnpacked"
    /\ src = "time"
    /\ ts.Seconds.hi >= 32768
    /\ ts.Fraction.lo % 4 = 3
    /\ wire0[1] = 255

\* C10: unpackExtensionFields never reads outside the slice it is given and reports
\* malformed input as an error instead of faulting.
C10_UnpackStaysInBounds ==
    op = "unpackExtensionFields" =>
        /\ ~fault
        /\ ~stray
        /\ ~RegionFields(Sub(buf.arr, 0, buf.len), 0).ok => err # "nil"

====
